---- MODULE Spec2Model ----
(***************************************************************************)
(* A model of invoice_app.py: the Customer Store helpers, the currency     *)
(* helpers, generate_invoice_pdf and the "Create Invoice" script (tab1).   *)
(*                                                                         *)
(* Money is counted in hundredths (1.0 == 100).  Conversion rates are      *)
(* counted in tenths (7.5 == 75).  A text that the program builds with an  *)
(* f-string is the sequence of its pieces.  Dates are not modelled.        *)
(***************************************************************************)
EXTENDS Integers, Sequences, FiniteSets, TLC

VARIABLES
    \* ---- tab1: widget values of one script run
    receiver, invoice_number, currency, invoice_purpose, mode, uploaded,
    manual_total, manual_bookings, clicked,
    \* ---- tab1: script locals
    total_amount_dkk, booking_count, cleaned_df,
    \* ---- tab1: what the run has produced so far
    pc, page, xlsx, pdf, exception,
    \* ---- the customers table
    customers, serial, db_op,
    \* ---- a convert_currency call and the conversion back
    cv_amount, cv_currency, cv_converted, cv_pc

tab1_inputs == <<receiver, invoice_number, currency, invoice_purpose, mode,
                 uploaded, manual_total, manual_bookings, clicked>>
tab1_locals == <<total_amount_dkk, booking_count, cleaned_df>>
tab1_output == <<pc, page, xlsx, pdf, exception>>
tab1_vars == <<tab1_inputs, tab1_locals, tab1_output>>
db_vars == <<customers, serial, db_op>>
cv_vars == <<cv_amount, cv_currency, cv_converted, cv_pc>>
vars == <<tab1_vars, db_vars, cv_vars>>

\* Python's None, and the empty cell of a data frame
None == [kind |-> "None"]
NaN == [kind |-> "nan"]

(***************************************************************************)
(* Bounds of the model.                                                    *)
(***************************************************************************)
MaxRows == 3
MaxId == 2
MaxAmount == 120

(***************************************************************************)
(* Generic helpers.                                                        *)
(***************************************************************************)
Abs(x) == IF x < 0 THEN -x ELSE x

Range(s) == {s[i] : i \in 1..Len(s)}

RECURSIVE SeqSum(_)
SeqSum(s) == IF s = <<>> THEN 0 ELSE s[1] + SeqSum(Tail(s))

SeqsUpTo(S, n) == UNION {[1..k -> S] : k \in 0..n}

Digit(d) == <<"0", "1", "2", "3", "4", "5", "6", "7", "8", "9">>[d + 1]

\* str(n) of a natural number, one character per element
RECURSIVE Str(_)
Str(n) == IF n < 10 THEN <<Digit(n)>> ELSE Str(n \div 10) \o <<Digit(n % 10)>>

\* f"{x:,.2f}" of a non-negative amount of whole hundredths
RECURSIVE Grouped(_)
Grouped(n) ==
    IF n < 1000 THEN Str(n)
    ELSE Grouped(n \div 1000) \o <<",">>
         \o <<Digit((n % 1000) \div 100), Digit((n % 100) \div 10), Digit(n % 10)>>

FormatMoney(c) ==
    Grouped(c \div 100) \o <<".">> \o <<Digit((c % 100) \div 10), Digit(c % 10)>>

\* str(x) of a float with one decimal, x counted in tenths
FloatText(t) == Str(t \div 10) \o <<".">> \o Str(t % 10)

(***************************************************************************)
(* Currency conversion.                                                    *)
(***************************************************************************)
RateEUR == 75
RateUSD == 65
RateGBP == 88

rates == [EUR |-> RateEUR, USD |-> RateUSD, GBP |-> RateGBP]

Currencies == {"DKK", "EUR", "USD", "GBP"}

\* rates.get(target_currency): 0 stands for None
RateOf(target_currency) ==
    IF target_currency \in DOMAIN rates THEN rates[target_currency] ELSE 0

\* round(amount / rate, 2).  The quotient of two binary floats that lies
\* halfway between two hundredths in decimal is above or below the half in
\* binary, so either neighbour can come out; everywhere else the nearest
\* hundredth does.
Round2Floor(amount, rate) ==
    {(10 * amount) \div rate}

Round2(amount, rate) ==
    LET q == (10 * amount) \div rate
        r == (10 * amount) % rate
    IN  IF 2 * r < rate THEN {q}
        ELSE IF 2 * r > rate THEN {q + 1}
        ELSE {q, q + 1}

\* the set of values convert_currency can return
convert_currency(amount_dkk, target_currency) ==
    LET rate == RateOf(target_currency)
    IN  IF rate # 0 THEN Round2(amount_dkk, rate) ELSE {amount_dkk}

get_currency_note(cur) ==
    IF cur \in DOMAIN rates
    THEN <<cur, " (1 ", cur, " = ", FloatText(rates[cur]), " DKK)">>
    ELSE <<cur>>

(***************************************************************************)
(* The customers table.  A table is a function from the ids in use to the  *)
(* rows; a text column holds "" when it is empty.                          *)
(***************************************************************************)
Customer(id, name, address, email, contact, vat, is_company) ==
    [id |-> id, name |-> name, address |-> address, email |-> email,
     contact |-> contact, vat |-> vat, is_company |-> is_company]

\* A text with a character outside latin-1 (written with its code point).
NonLatin1Name == "[U+0141]odz Limo"

Names == <<"Acme ApS", "Bo Hansen", NonLatin1Name>>
Addresses == {"", "Vej 1, 2650 Hvidovre"}
Emails == {"", "post@acme.dk"}
Contacts == {"", "Ida Holm"}
Vats == {"", "DK123"}

Latin1(text) == text # NonLatin1Name

\* Customer.name is compared as the database collates it: here by the
\* position of the name in Names.
NameRank(name) == CHOOSE i \in 1..Len(Names) : Names[i] = name

\* add_customer: INSERT with the id the table's sequence hands out
add_customer(table, next_id, kwargs) ==
    [i \in DOMAIN table \cup {next_id} |->
        IF i = next_id THEN [kwargs EXCEPT !.id = next_id] ELSE table[i]]

\* session.query(Customer).order_by(Customer.name).all(): the orderings of
\* the rows by name (rows of one name come in any order)
get_customers(table) ==
    LET rows == {table[i] : i \in DOMAIN table}
    IN  {s \in [1..Cardinality(rows) -> rows] :
            /\ Range(s) = rows
            /\ \A i, j \in 1..Len(s) :
                  i < j => NameRank(s[i].name) <= NameRank(s[j].name)}

\* session.query(Customer).get(id)
QueryGet(table, id) == IF id \in DOMAIN table THEN table[id] ELSE None

\* update_customer: setattr on what get(id) returned, then commit.  The
\* result is the table afterwards and the exception raised ("" for none).
update_customer(table, id, updates) ==
    LET cust == QueryGet(table, id)
    IN  IF cust = None /\ DOMAIN updates # {}
        THEN [table |-> table, raised |-> "AttributeError"]
        ELSE IF cust = None
        THEN [table |-> table, raised |-> ""]
        ELSE [table |-> [table EXCEPT ![id] =
                            [k \in DOMAIN cust |->
                                IF k \in DOMAIN updates THEN updates[k] ELSE cust[k]]],
              raised |-> ""]

\* delete_customer: DELETE ... WHERE id = :id, then commit
delete_customer(table, id) ==
    [table |-> [i \in DOMAIN table \ {id} |-> table[i]], raised |-> ""]

(***************************************************************************)
(* generate_invoice_pdf.  The document is the texts put on the page, in    *)
(* the order of the calls; logo tells whether logo.png could be read.      *)
(* FPDF's core fonts take latin-1 only: a text outside it raises.          *)
(***************************************************************************)
Letterhead ==
    <<"Limousine Service Xpress ApS", "Industriholmen 82", "2650 Hvidovre",
      "Denmark", "CVR: DK45247961", "IBAN: LT87 3250 0345 4552 5735",
      "SWIFT: REVOLT21", "Email: limoexpresscph@gmail.com">>

OptionalLine(present, line) == IF present THEN <<line>> ELSE <<>>

\* a variant that prints the VAT number of private customers too
BillToVatOfAnyone(r) ==
    OptionalLine(r.name # "", <<r.name>>)
    \o OptionalLine(r.contact # "", <<"Att: ", r.contact>>)
    \o OptionalLine(r.address # "", <<r.address>>)
    \o OptionalLine(r.vat # "", <<"VAT No: ", r.vat>>)
    \o OptionalLine(r.email # "", <<"Email: ", r.email>>)

\* lines 104-118
BillTo(r) ==
    OptionalLine(r.name # "", <<r.name>>)
    \o OptionalLine(r.contact # "", <<"Att: ", r.contact>>)
    \o OptionalLine(r.address # "", <<r.address>>)
    \o OptionalLine(r.vat # "" /\ r.is_company, <<"VAT No: ", r.vat>>)
    \o OptionalLine(r.email # "", <<"Email: ", r.email>>)

\* the texts of the user that reach a cell of the page
PageTexts(r, number, description) ==
    {number, description, r.name, r.contact, r.address, r.email}
    \cup (IF r.is_company THEN {r.vat} ELSE {})

generate_invoice_pdf(r, number, cur, description, total_amount, count, logo) ==
    IF \E t \in PageTexts(r, number, description) : ~Latin1(t)
    THEN [kind |-> "UnicodeEncodeError"]
    ELSE [kind |-> "pdf",
          logo |-> logo,
          title |-> <<"INVOICE ", number>>,
          from |-> Letterhead,
          bill_to |-> BillTo(r),
          currency_line |-> <<"Currency: ">> \o get_currency_note(cur),
          item |-> [description |-> IF description # "" THEN description
                                    ELSE "Transfers",
                    qty |-> Str(count),
                    total |-> <<FormatMoney(total_amount), " ", cur>>],
          subtotal |-> <<FormatMoney(total_amount), " ", cur>>,
          amount_due |-> <<FormatMoney(total_amount), " ", cur>>,
          reference |-> <<"Please add invoice number ", number,
                          " as reference when making payment.">>]

(***************************************************************************)
(* The upload (tab1, lines 184-193).  A sheet is the sequence of its Base  *)
(* Rate cells, one per data row: empty, a number, or a text.  A row of the *)
(* data frame keeps the position it had in the sheet, which stands for its *)
(* other columns.                                                          *)
(***************************************************************************)
Num(v) == [kind |-> "num", val |-> v]
Text(chars) == [kind |-> "text", chars |-> chars]

DigitChars == {Digit(d) : d \in 0..9}
DigitVal(c) == CHOOSE d \in 0..9 : Digit(d) = c

RECURSIVE NatOf(_)
NatOf(chars) ==
    IF chars = <<>> THEN 0
    ELSE 10 * NatOf(SubSeq(chars, 1, Len(chars) - 1)) + DigitVal(chars[Len(chars)])

\* float(text) for a text of digits: the amount in hundredths, -1 for
\* ValueError
ParseFloat(chars) ==
    IF chars # <<>> /\ \A i \in 1..Len(chars) : chars[i] \in DigitChars
    THEN 100 * NatOf(chars)
    ELSE -1

\* .replace(',', '', regex=True) touches the text cells only
StripCommas(chars) == SelectSeq(chars, LAMBDA c : c # ",")

\* .replace(...).astype(float) of one cell
NormalizeBaseRate(cell) ==
    IF cell.kind = "num" THEN cell.val ELSE ParseFloat(StripCommas(cell.chars))

\* a variant of dropna that keeps the empty cells, read as 0
RECURSIVE KeepNa(_, _)
KeepNa(cells, i) ==
    IF i > Len(cells) THEN <<>>
    ELSE <<[row |-> i, base_rate |-> IF cells[i] = NaN THEN Num(0) ELSE cells[i]]>>
         \o KeepNa(cells, i + 1)

\* df[target_cols].dropna(subset=['Base Rate']), from data row i on
RECURSIVE DropNa(_, _)
DropNa(cells, i) ==
    IF i > Len(cells) THEN <<>>
    ELSE (IF cells[i] = NaN THEN <<>> ELSE <<[row |-> i, base_rate |-> cells[i]]>>)
         \o DropNa(cells, i + 1)

BaseRates(df) == [i \in 1..Len(df) |-> df[i].base_rate]

\* a variant of the test of line 192 that takes a difference of 1.0 too
IsTrailingTotalInclusive(last_value, sum_except_last) ==
    Abs(last_value - sum_except_last) <= 100

\* line 192
IsTrailingTotal(last_value, sum_except_last) ==
    Abs(last_value - sum_except_last) < 100

\* lines 185-193: the cleaned data frame, or the exception raised
read_upload(file) ==
    IF ~file.has_columns THEN [raised |-> "KeyError", df |-> <<>>]
    ELSE LET dropped == DropNa(file.cells, 1)
             parsed == [i \in 1..Len(dropped) |->
                           [row |-> dropped[i].row,
                            base_rate |-> NormalizeBaseRate(dropped[i].base_rate)]]
         IN  IF \E i \in 1..Len(parsed) : parsed[i].base_rate < 0
             THEN [raised |-> "ValueError", df |-> <<>>]
             ELSE IF parsed = <<>>
             THEN [raised |-> "IndexError", df |-> <<>>]
             ELSE LET last_value == parsed[Len(parsed)].base_rate
                      sum_except_last ==
                          SeqSum(BaseRates(SubSeq(parsed, 1, Len(parsed) - 1)))
                  IN  [raised |-> "",
                       df |-> IF IsTrailingTotal(last_value, sum_except_last)
                              THEN SubSeq(parsed, 1, Len(parsed) - 1)
                              ELSE parsed]

\* a variant of line 197 that adds the rate of the first row twice
BaseRateSumFirstTwice(df) ==
    SeqSum(BaseRates(df)) + (IF df = <<>> THEN 0 ELSE df[1].base_rate)

\* cleaned_df['Base Rate'].sum()
BaseRateSum(df) == SeqSum(BaseRates(df))

target_cols ==
    <<"Trip Date", "Passenger", "From", "To", "Customer", "Cust. Ref.", "Base Rate">>

\* lines 208-221: the workbook written for a non-empty data frame
Specification(df) ==
    [kind |-> "xlsx",
     header |-> target_cols,
     rows |-> df,
     total_row |-> <<"", "", "", "", "", "Total", SeqSum(BaseRates(df))>>]

(***************************************************************************)
(* Input sets.                                                             *)
(***************************************************************************)
Cells == {NaN, Num(50), Num(100), Num(200), Text(<<"1", ",", "0", "0", "0">>)}

Uploads ==
    {None, [kind |-> "file", has_columns |-> FALSE, cells |-> <<>>]}
    \cup {[kind |-> "file", has_columns |-> TRUE, cells |-> c] :
            c \in SeqsUpTo(Cells, MaxRows)}

Modes == {"Manual", "Auto from Excel"}
InvoiceNumbers == {"", "1001"}
Descriptions == {"", "Transfers in May 2025"}
ManualTotals == {0, 75000}
ManualBookings == {0, 10}

EmptyTable == [i \in {} |-> None]

SampleTable ==
    add_customer(
      add_customer(
        add_customer(EmptyTable, 1,
          Customer(0, "Acme ApS", "Vej 1, 2650 Hvidovre", "post@acme.dk",
                   "Ida Holm", "DK123", TRUE)),
        2, Customer(0, "Bo Hansen", "", "", "", "DK123", FALSE)),
      3, Customer(0, NonLatin1Name, "Vej 1, 2650 Hvidovre", "", "Ida Holm", "", TRUE))

AllCustomers ==
    {Customer(1, n, a, e, c, v, b) :
        n \in Range(Names), a \in Addresses, e \in Emails, c \in Contacts,
        v \in Vats, b \in BOOLEAN}

NoDbOp == [op |-> "none"]

DbIdle ==
    /\ db_op = NoDbOp
    /\ serial = 1 + Cardinality(DOMAIN customers)

ConvertIdle ==
    /\ cv_amount = 0
    /\ cv_currency = "DKK"
    /\ cv_converted = 0
    /\ cv_pc = "idle"

(***************************************************************************)
(* tab1: one run of the script, from the widget values it reads.           *)
(***************************************************************************)
Init ==
    /\ customers \in {EmptyTable, SampleTable}
    /\ DbIdle
    /\ ConvertIdle
    \* st.selectbox over get_customers(): an option, None without options
    /\ receiver \in
          LET options == UNION {Range(listed) : listed \in get_customers(customers)}
          IN  IF options = {} THEN {None} ELSE options
    /\ invoice_number \in InvoiceNumbers
    /\ currency \in Currencies
    /\ invoice_purpose = "Transfers in May 2025"
    /\ mode \in Modes
    /\ uploaded \in Uploads
    \* the two number inputs exist in manual mode only
    /\ manual_total \in IF mode = "Manual" THEN ManualTotals ELSE {0}
    /\ manual_bookings \in IF mode = "Manual" THEN ManualBookings ELSE {0}
    /\ clicked \in BOOLEAN
    /\ total_amount_dkk = 0
    /\ booking_count = 0
    /\ cleaned_df = <<>>
    /\ pc = "upload"
    /\ page = <<>>
    /\ xlsx = None
    /\ pdf = None
    /\ exception = ""

\* lines 184-197
ReadUpload ==
    /\ pc = "upload"
    /\ IF uploaded = None
       THEN /\ pc' = "manual"
            /\ UNCHANGED <<tab1_locals, exception>>
       ELSE LET got == read_upload(uploaded)
            IN  IF got.raised # ""
                THEN /\ exception' = got.raised
                     /\ pc' = "aborted"
                     /\ UNCHANGED tab1_locals
                ELSE /\ cleaned_df' = got.df
                     /\ IF mode = "Auto from Excel"
                        THEN /\ booking_count' = Len(got.df)
                             /\ total_amount_dkk' = BaseRateSum(got.df)
                        ELSE UNCHANGED <<booking_count, total_amount_dkk>>
                     /\ pc' = "manual"
                     /\ UNCHANGED exception
    /\ UNCHANGED <<tab1_inputs, page, xlsx, pdf, db_vars, cv_vars>>

\* lines 199-201
ManualInputs ==
    /\ pc = "manual"
    /\ IF mode = "Manual"
       THEN /\ total_amount_dkk' = manual_total
            /\ booking_count' = manual_bookings
       ELSE UNCHANGED <<total_amount_dkk, booking_count>>
    /\ pc' = "button"
    /\ UNCHANGED <<tab1_inputs, cleaned_df, page, xlsx, pdf, exception,
                   db_vars, cv_vars>>

\* lines 203-206
GenerateButton ==
    /\ pc = "button"
    /\ IF ~clicked
       THEN /\ pc' = "done"
            /\ page' = page
       ELSE IF receiver = None \/ invoice_number = ""
       THEN /\ page' = Append(page, "error: Customer and Invoice Number are required.")
            /\ pc' = "done"
       ELSE /\ pc' = "specification"
            /\ page' = page
    /\ UNCHANGED <<tab1_inputs, tab1_locals, xlsx, pdf, exception, db_vars, cv_vars>>

\* lines 207-223
WriteSpecification ==
    /\ pc = "specification"
    /\ IF cleaned_df # <<>>
       THEN /\ xlsx' = Specification(cleaned_df)
            /\ page' = page \o <<"dataframe", "download: Specification XLSX">>
       ELSE UNCHANGED <<xlsx, page>>
    /\ pc' = "invoice"
    /\ UNCHANGED <<tab1_inputs, tab1_locals, pdf, exception, db_vars, cv_vars>>

\* line 225: the values final_total can take
FinalTotal(amount_dkk, amount_mode, cur) ==
    IF amount_mode = "Auto from Excel" /\ cur # "DKK"
    THEN convert_currency(amount_dkk, cur)
    ELSE {amount_dkk}

\* lines 225-228
RenderInvoice ==
    /\ pc = "invoice"
    /\ \E logo \in BOOLEAN, final_total \in FinalTotal(total_amount_dkk, mode, currency) :
          LET out == generate_invoice_pdf(receiver, invoice_number, currency,
                         invoice_purpose, final_total, booking_count, logo)
          IN  IF out.kind = "pdf"
              THEN /\ pdf' = out
                   /\ page' = page \o <<"pdf preview", "download: PDF Invoice">>
                   /\ pc' = "done"
                   /\ UNCHANGED exception
              ELSE /\ exception' = out.kind
                   /\ pc' = "aborted"
                   /\ UNCHANGED <<pdf, page>>
    /\ UNCHANGED <<tab1_inputs, tab1_locals, xlsx, db_vars, cv_vars>>

Next ==
    \/ ReadUpload
    \/ ManualInputs
    \/ GenerateButton
    \/ WriteSpecification
    \/ RenderInvoice

Spec == Init /\ [][Next]_vars

Tab1Idle ==
    /\ receiver = None
    /\ invoice_number = ""
    /\ currency = "DKK"
    /\ invoice_purpose = ""
    /\ mode = "Manual"
    /\ uploaded = None
    /\ manual_total = 0
    /\ manual_bookings = 0
    /\ clicked = FALSE
    /\ total_amount_dkk = 0
    /\ booking_count = 0
    /\ cleaned_df = <<>>
    /\ pc = "idle"
    /\ page = <<>>
    /\ xlsx = None
    /\ pdf = None
    /\ exception = ""

(***************************************************************************)
(* generate_invoice_pdf called on any customer record.                     *)
(***************************************************************************)
InitPdf ==
    /\ customers = EmptyTable
    /\ DbIdle
    /\ ConvertIdle
    /\ receiver \in AllCustomers
    /\ invoice_number = "1001"
    /\ currency \in Currencies
    /\ invoice_purpose \in Descriptions
    /\ mode = "Manual"
    /\ uploaded = None
    /\ manual_total \in ManualTotals
    /\ manual_bookings = 10
    /\ clicked = TRUE
    /\ total_amount_dkk = manual_total
    /\ booking_count = manual_bookings
    /\ cleaned_df = <<>>
    /\ pc = "invoice"
    /\ page = <<>>
    /\ xlsx = None
    /\ pdf = None
    /\ exception = ""

NextPdf == RenderInvoice

SpecPdf == InitPdf /\ [][NextPdf]_vars

(***************************************************************************)
(* The Customer Store: add, update and delete in any order, on any id.     *)
(***************************************************************************)
NewCustomers ==
    {Customer(0, "Acme ApS", "Vej 1, 2650 Hvidovre", "post@acme.dk", "Ida Holm",
              "DK123", TRUE),
     Customer(0, "Bo Hansen", "", "", "", "", FALSE)}

Updates ==
    {[i \in {} |-> ""],
     [name |-> "Bo Hansen"],
     [vat |-> "", is_company |-> FALSE]}

InitStore ==
    /\ Tab1Idle
    /\ ConvertIdle
    /\ customers = EmptyTable
    /\ serial = 1
    /\ db_op = NoDbOp

AddCustomer ==
    /\ serial <= MaxId
    /\ \E kwargs \in NewCustomers :
          /\ customers' = add_customer(customers, serial, kwargs)
          /\ db_op' = [op |-> "add", id |-> serial, raised |-> "", before |-> customers]
    /\ serial' = serial + 1
    /\ UNCHANGED <<tab1_vars, cv_vars>>

UpdateCustomer ==
    /\ \E id \in 1..MaxId, updates \in Updates :
          LET out == update_customer(customers, id, updates)
          IN  /\ customers' = out.table
              /\ db_op' = [op |-> "update", id |-> id, raised |-> out.raised,
                           before |-> customers, updates |-> updates]
    /\ UNCHANGED <<serial, tab1_vars, cv_vars>>

DeleteCustomer ==
    /\ \E id \in 1..MaxId :
          LET out == delete_customer(customers, id)
          IN  /\ customers' = out.table
              /\ db_op' = [op |-> "delete", id |-> id, raised |-> out.raised,
                           before |-> customers]
    /\ UNCHANGED <<serial, tab1_vars, cv_vars>>

NextStore ==
    \/ AddCustomer
    \/ UpdateCustomer
    \/ DeleteCustomer

SpecStore == InitStore /\ [][NextStore]_vars

(***************************************************************************)
(* convert_currency called on any amount.                                  *)
(***************************************************************************)
InitConvert ==
    /\ Tab1Idle
    /\ customers = EmptyTable
    /\ DbIdle
    /\ cv_amount \in 0..MaxAmount \cup {75000}
    /\ cv_currency \in Currencies
    /\ cv_converted = 0
    /\ cv_pc = "call"

Convert ==
    /\ cv_pc = "call"
    /\ cv_converted' \in convert_currency(cv_amount, cv_currency)
    /\ cv_pc' = "returned"
    /\ UNCHANGED <<cv_amount, cv_currency, tab1_vars, db_vars>>

NextConvert == Convert

SpecConvert == InitConvert /\ [][NextConvert]_vars

(***************************************************************************)
(* Properties of the upload and of the pricing (specification Spec).       *)
(***************************************************************************)
\* the run has read an upload without raising
Imported == uploaded # None /\ pc \notin {"upload", "aborted"}

NonEmptyRows == {i \in 1..Len(uploaded.cells) : uploaded.cells[i] # NaN}
KeptRows == {cleaned_df[k].row : k \in 1..Len(cleaned_df)}

\* the amounts of the rows left after the rows with an empty amount are dropped
RECURSIVE AmountsFrom(_, _)
AmountsFrom(cells, i) ==
    IF i > Len(cells) THEN <<>>
    ELSE (IF cells[i] = NaN THEN <<>> ELSE <<NormalizeBaseRate(cells[i])>>)
         \o AmountsFrom(cells, i + 1)

Front(s) == SubSeq(s, 1, Len(s) - 1)

\* C1: in automatic mode the priced result is (total, count) with count the
\* number of surviving rows and total the sum of their base rates; the
\* surviving rows are the uploaded rows with a non-empty amount cell, in
\* their order, all of them except possibly the last; no row with an empty
\* amount cell is counted or summed.
C1_AutoPricing ==
    (Imported /\ mode = "Auto from Excel") =>
        /\ booking_count = Len(cleaned_df)
        /\ total_amount_dkk = SeqSum(BaseRates(cleaned_df))
        /\ KeptRows \subseteq NonEmptyRows
        /\ \A i \in NonEmptyRows \ KeptRows : \A j \in NonEmptyRows : j <= i
        /\ \A k \in 1..Len(cleaned_df) :
              /\ cleaned_df[k].base_rate
                    = NormalizeBaseRate(uploaded.cells[cleaned_df[k].row])
              /\ k > 1 => cleaned_df[k - 1].row < cleaned_df[k].row

\* C1 witness: rows 0.50, 0.50 and a trailing 1.00 in automatic mode: the
\* invoice is made for 2 bookings and 1.00.
C1_Witness ==
    /\ pc = "done" /\ pdf # None /\ mode = "Auto from Excel"
    /\ uploaded # None
    /\ Len(uploaded.cells) = 3
    /\ uploaded.cells[3] = Num(100)
    /\ booking_count = 2
    /\ total_amount_dkk = 100

C10_ImportCompletes ==
    (/\ uploaded # None
     /\ uploaded.has_columns
     /\ \A i \in 1..Len(uploaded.cells) :
           uploaded.cells[i] = NaN \/ NormalizeBaseRate(uploaded.cells[i]) >= 0)
    => exception \notin {"KeyError", "ValueError", "IndexError"}

(***************************************************************************)
(* Properties of the Generate handler (specification Spec).                *)
(***************************************************************************)
\* C3: in manual as in automatic mode, the total on the invoice is the DKK
\* total divided by the rate of the selected currency and rounded to 2
\* decimals when the currency is EUR, USD or GBP (the rate the currency note
\* names is the rate applied), and the DKK total itself, with the bare code
\* as the note, when the currency is DKK.
C3_RenderedTotalConverted ==
    pdf # None =>
        IF currency \in DOMAIN rates
        THEN /\ \E c \in Round2(total_amount_dkk, rates[currency]) :
                   pdf.item.total = <<FormatMoney(c), " ", currency>>
             /\ pdf.currency_line =
                   <<"Currency: ", currency, " (1 ", currency, " = ",
                     FloatText(rates[currency]), " DKK)">>
        ELSE /\ pdf.item.total = <<FormatMoney(total_amount_dkk), " ", currency>>
             /\ pdf.currency_line = <<"Currency: ", currency>>

\* C4: Generate in manual mode with a manual total of zero and no booking
\* rows ends in a validation error, and no invoice document is produced.
C4_ManualZeroRejected ==
    (/\ pc = "done"
     /\ clicked
     /\ mode = "Manual"
     /\ manual_total = 0
     /\ cleaned_df = <<>>)
    => /\ pdf = None
       /\ \E i \in 1..Len(page) :
             page[i] = "error: Customer and Invoice Number are required."

\* C5: when the rendering of the invoice document fails, nothing has been
\* offered to the caller: no specification spreadsheet was offered for
\* download before the failure.
C5_NothingOfferedOnFailure ==
    exception = "UnicodeEncodeError" => (page = <<>> /\ xlsx = None)

\* C6 as amended: in automatic mode, whenever one request produces both the
\* invoice document and the specification spreadsheet, the spreadsheet's
\* trailing Total equals the home-currency total priced for the document.
\* (In manual mode the document's total is the manual total, whatever the
\* uploaded rows sum to.)
C6_TotalsAgreeInAutoMode ==
    (pdf # None /\ xlsx # None /\ mode = "Auto from Excel")
    => xlsx.total_row[7] = total_amount_dkk

\* C6 witness: an automatic request with rows that produced both artifacts.
C6_Witness ==
    /\ pdf # None /\ xlsx # None
    /\ mode = "Auto from Excel"
    /\ Len(cleaned_df) = 2
    /\ xlsx.total_row[7] = 300

\* C6 as claimed: the two totals agree in every mode.
C6_TotalsAgreeInEveryMode ==
    (pdf # None /\ xlsx # None) => xlsx.total_row[7] = total_amount_dkk

(***************************************************************************)
(* Properties of convert_currency (specification SpecConvert).  The        *)
(* product of hundredths and tenths counts thousandths.                    *)
(***************************************************************************)
RoundTripError == Abs(cv_converted * RateOf(cv_currency) - 10 * cv_amount)

\* C7 as amended: for every non-negative two-decimal DKK amount and every
\* table currency, the converted amount times the rate differs from the
\* amount by at most half a hundredth of the target currency times the rate
\* (0.0375 for EUR, 0.0325 for USD, 0.044 for GBP), so by less than 0.05.
C7_RoundTripWithinHalfRate ==
    (cv_pc = "returned" /\ cv_currency \in DOMAIN rates)
    => /\ 2 * RoundTripError <= rates[cv_currency]
       /\ RoundTripError < 50

\* C7 witness: 0.66 DKK in GBP is 0.075, halfway between 0.07 and 0.08;
\* either one, times 8.8, is 0.044 away from 0.66.
C7_Witness ==
    /\ cv_pc = "returned"
    /\ cv_currency = "GBP"
    /\ cv_amount = 66
    /\ RoundTripError = 44

\* C7 as claimed: the difference is at most 0.01.
C7_RoundTripWithinCent ==
    (cv_pc = "returned" /\ cv_currency \in DOMAIN rates)
    => RoundTripError <= 10

(***************************************************************************)
(* Properties of generate_invoice_pdf (specification SpecPdf).             *)
(***************************************************************************)
HasLine(doc, prefix) ==
    \E i \in 1..Len(doc.bill_to) :
        Len(doc.bill_to[i]) = 2 /\ doc.bill_to[i][1] = prefix

\* C8 as amended: in the bill-to block the contact line is there if and only
\* if a contact is present, the VAT line if and only if the customer is a
\* company with a non-empty VAT value, and the email line if and only if the
\* email is non-empty.
C8_BillToLines ==
    pdf # None =>
        /\ HasLine(pdf, "Att: ") <=> receiver.contact # ""
        /\ HasLine(pdf, "VAT No: ") <=> (receiver.is_company /\ receiver.vat # "")
        /\ HasLine(pdf, "Email: ") <=> receiver.email # ""

\* C8 witness: a company with a VAT value and without email: VAT line, no
\* email line.
C8_Witness ==
    /\ pdf # None
    /\ receiver.email = ""
    /\ receiver.is_company /\ receiver.vat # ""
    /\ HasLine(pdf, "VAT No: ")
    /\ ~HasLine(pdf, "Email: ")

\* C8 as claimed: the email line is always there, also for an empty email.
C8_BillToEmailAlways ==
    pdf # None =>
        /\ HasLine(pdf, "Att: ") <=> receiver.contact # ""
        /\ HasLine(pdf, "VAT No: ") <=> (receiver.is_company /\ receiver.vat # "")
        /\ HasLine(pdf, "Email: ")

(***************************************************************************)
(* Properties of the Customer Store (specification SpecStore).             *)
(***************************************************************************)
\* C9: update with a non-empty set of fields, and delete, on an id that is
\* not in the store complete without raising and leave the stored records
\* as they were.
C9_MissingIdIsNoOp ==
    (/\ db_op.op \in {"update", "delete"}
     /\ db_op.id \notin DOMAIN db_op.before
     /\ db_op.op = "update" => DOMAIN db_op.updates # {})
    => /\ db_op.raised = ""
       /\ customers = db_op.before

====
